---- MODULE Spec2Model ----
(***************************************************************************)
(* The Cloudflare DDNS worker of src/index.js as a state machine.          *)
(*                                                                         *)
(* Text that comes from a request (Authorization value, user name, token,  *)
(* host name, caller address) is a sequence of character codes, so that    *)
(* split, atob, indexOf and substring are computed and not assumed.  Text  *)
(* the program writes itself (reasons, header values) is a TLA+ string.    *)
(***************************************************************************)
EXTENDS Integers, Sequences, FiniteSets, TLC

VARIABLES
    request,    \* request[r]: the Request delivered for r (NoRequest before)
    pc,         \* pc[r]: where the handler of r is suspended
    locals,     \* locals[r]: reqip, username, token, hostname, zone, record
    steps,      \* steps[r]: the functions the handler of r has entered, in order
    calls,      \* calls[r]: the fetch() calls r has issued, in order
    answers,    \* answers[r]: the provider bodies r has received, in order
    response,   \* response[r]: the Response r was answered with (NoResponse before)
    thrown,     \* thrown[r]: what handleRequest rejected with (NoError if nothing)
    dns,        \* the provider's DNS records, by record id
    applied,    \* applied[r]: the record the provider stored for r's update (NoRecord if none)
    doneBefore, \* doneBefore[r]: the requests already answered when r arrived
    parserIn,   \* the decoded credential text handed to the credential parser run
    parserOut   \* what basicAuthentication returned or threw for it

vars == <<request, pc, locals, steps, calls, answers, response, thrown, dns, applied,
          doneBefore, parserIn, parserOut>>

----------------------------------------------------------------------------
(* Bounds *)

\* number of requests the worker receives in one behaviour
NumReq == 2

\* longest decoded credential text given to the credential parser
MaxCredLen == 3

----------------------------------------------------------------------------
(* Characters *)

Space == 32
Colon == 58
Pad == 61
DEL == 127
LastC0 == 31

\* "undefined": what atob() receives when split(" ") yields no second part
UndefinedText == <<117, 110, 100, 101, 102, 105, 110, 101, 100>>

\* "Basic"
BasicScheme == <<66, 97, 115, 105, 99>>

\* /[\0-\x1F\x7F]/
IsControl(c) == (c >= 0 /\ c <= LastC0) \/ c = DEL

\* /[\0-\x1F\x7F]/.test(text)
HasControl(text) == \E i \in 1..Len(text) : IsControl(text[i])

\* HTML "ASCII whitespace": tab, LF, FF, CR, space
IsAsciiWhitespace(c) == c \in {9, 10, 12, 13, Space}

\* the value of a character of the base64 alphabet, -1 for any other character
B64Value(c) ==
    IF c >= 65 /\ c <= 90 THEN c - 65
    ELSE IF c >= 97 /\ c <= 122 THEN c - 71
    ELSE IF c >= 48 /\ c <= 57 THEN c + 4
    ELSE IF c = 43 THEN 62
    ELSE IF c = 47 THEN 63
    ELSE -1

\* the character of the base64 alphabet with value v
B64Char(v) ==
    IF v <= 25 THEN v + 65
    ELSE IF v <= 51 THEN v + 71
    ELSE IF v <= 61 THEN v - 4
    ELSE IF v = 62 THEN 43
    ELSE 47

----------------------------------------------------------------------------
(* String functions *)

RECURSIVE SplitFrom(_, _, _)
SplitFrom(s, i, cur) ==
    IF i > Len(s) THEN <<cur>>
    ELSE IF s[i] = Space THEN <<cur>> \o SplitFrom(s, i + 1, <<>>)
    ELSE SplitFrom(s, i + 1, Append(cur, s[i]))

\* String.prototype.split(" ")
split(s) == SplitFrom(s, 1, <<>>)

RECURSIVE IndexFrom(_, _, _)
IndexFrom(s, c, i) ==
    IF i > Len(s) THEN -1
    ELSE IF s[i] = c THEN i - 1
    ELSE IndexFrom(s, c, i + 1)

\* String.prototype.indexOf(c): 0-based, -1 when absent
indexOf(s, c) == IndexFrom(s, c, 1)

\* String.prototype.substring(from, to) with 0-based bounds
substring(s, from, to) == SubSeq(s, from + 1, to)

RECURSIVE Strip(_)
Strip(s) ==
    IF s = <<>> THEN <<>>
    ELSE IF IsAsciiWhitespace(Head(s)) THEN Strip(Tail(s))
    ELSE <<Head(s)>> \o Strip(Tail(s))

\* forgiving-base64: one or two trailing '=' are dropped when the length is a multiple of 4
Unpad(s) ==
    IF Len(s) > 0 /\ Len(s) % 4 = 0 /\ s[Len(s)] = Pad
    THEN IF s[Len(s) - 1] = Pad THEN SubSeq(s, 1, Len(s) - 2)
         ELSE SubSeq(s, 1, Len(s) - 1)
    ELSE s

RECURSIVE Sextets(_)
Sextets(v) ==
    IF Len(v) = 0 THEN <<>>
    ELSE IF Len(v) >= 4
    THEN LET n == v[1] * 262144 + v[2] * 4096 + v[3] * 64 + v[4]
         IN  <<n \div 65536, (n \div 256) % 256, n % 256>>
                 \o Sextets(SubSeq(v, 5, Len(v)))
    ELSE IF Len(v) = 3
    THEN LET n == v[1] * 4096 + v[2] * 64 + v[3]
         IN  <<n \div 1024, (n \div 4) % 256>>
    ELSE LET n == v[1] * 64 + v[2]
         IN  <<n \div 16>>

\* atob(data): [ok |-> FALSE] stands for the InvalidCharacterError it throws
atob(data) ==
    LET s == Unpad(Strip(data))
    IN  IF Len(s) % 4 = 1 \/ (\E i \in 1..Len(s) : B64Value(s[i]) = -1)
        THEN [ok |-> FALSE, bytes |-> <<>>]
        ELSE [ok |-> TRUE, bytes |-> Sextets([i \in 1..Len(s) |-> B64Value(s[i])])]

RECURSIVE btoa(_)
\* btoa(bytes): how a client encodes the credential it sends
btoa(b) ==
    IF Len(b) = 0 THEN <<>>
    ELSE IF Len(b) >= 3
    THEN LET n == b[1] * 65536 + b[2] * 256 + b[3]
         IN  <<B64Char(n \div 262144), B64Char((n \div 4096) % 64),
               B64Char((n \div 64) % 64), B64Char(n % 64)>>
                 \o btoa(SubSeq(b, 4, Len(b)))
    ELSE IF Len(b) = 2
    THEN LET n == (b[1] * 256 + b[2]) * 4
         IN  <<B64Char(n \div 4096), B64Char((n \div 64) % 64), B64Char(n % 64), Pad>>
    ELSE LET n == b[1] * 16
         IN  <<B64Char(n \div 64), B64Char(n % 64), Pad, Pad>>

\* new TextDecoder().decode(buffer).normalize(): an ASCII byte is the character
\* with that code and NFC leaves ASCII alone; a byte that starts no valid UTF-8
\* sequence decodes to U+FFFD
TextDecode(bytes) == [i \in 1..Len(bytes) |-> IF bytes[i] < 128 THEN bytes[i] ELSE 65533]

----------------------------------------------------------------------------
(* Texts, exceptions and responses *)

\* a text the program writes: pre, then a request value, then post
Text(s) == [pre |-> s, arg |-> <<>>, post |-> ""]
Quoted(s, v) == [pre |-> s, arg |-> v, post |-> "'"]
Raw(v) == [pre |-> "", arg |-> v, post |-> ""]
EmptyText == Text("")

\* a value that is not an exception, where a record needs one
NoError == [name |-> "", status |-> 0, statusText |-> "", reason |-> EmptyText, stack |-> ""]

\* status 0, statusText "", an empty reason and an empty stack stand for
\* properties the thrown value does not have: all are falsy in `||`
UnauthorizedException(reason) ==
    [name |-> "UnauthorizedException", status |-> 401, statusText |-> "Unauthorized",
     reason |-> reason, stack |-> ""]

BadRequestException(reason) ==
    [name |-> "BadRequestException", status |-> 400, statusText |-> "Bad Request",
     reason |-> reason, stack |-> ""]

CloudflareApiException(reason) ==
    [name |-> "CloudflareApiException", status |-> 500,
     statusText |-> "Internal Server Error", reason |-> reason, stack |-> ""]

\* the DOMException atob() throws: it carries a stack and none of status, statusText, reason
InvalidCharacterError ==
    [name |-> "DOMException", status |-> 0, statusText |-> "", reason |-> EmptyText,
     stack |-> "InvalidCharacterError: atob() called with invalid base64-encoded data."]

NoResponse ==
    [status |-> 0, statusText |-> "", body |-> EmptyText, contentType |-> "",
     cacheControl |-> "", contentLength |-> ""]

\* new Response(body, {status}): only what the program sets itself is recorded
Response(body, status) ==
    [status |-> status, statusText |-> "", body |-> body, contentType |-> "",
     cacheControl |-> "", contentLength |-> ""]

\* the Response informAPI returns
GoodResponse ==
    [status |-> 200, statusText |-> "", body |-> Text("good"),
     contentType |-> "text/plain;charset=UTF-8", cacheControl |-> "no-store",
     contentLength |-> ""]

\* err.reason || err.stack || "Unknown Error"
ErrorMessage(err) ==
    IF err.reason # EmptyText THEN err.reason
    ELSE IF err.stack # "" THEN Text(err.stack)
    ELSE Text("Unknown Error")

\* the .catch() without the default status
CatchResponseNoDefault(err) ==
    [status |-> err.status,
     statusText |-> err.statusText,
     body |-> ErrorMessage(err),
     contentType |-> "text/plain;charset=UTF-8",
     cacheControl |-> "no-store",
     contentLength |-> "message.length"]

\* the .catch() of the fetch listener
CatchResponse(err) ==
    [status |-> IF err.status # 0 THEN err.status ELSE 500,
     statusText |-> err.statusText,
     body |-> ErrorMessage(err),
     contentType |-> "text/plain;charset=UTF-8",
     cacheControl |-> "no-store",
     contentLength |-> "message.length"]

----------------------------------------------------------------------------
(* Credential parser and parameter validator *)

\* const [scheme, encoded] = Authorization.split(" "): a missing second part is
\* undefined, which atob() converts to the string "undefined"
EncodedPart(Authorization) ==
    LET parts == split(Authorization)
    IN  IF Len(parts) >= 2 THEN parts[2] ELSE UndefinedText

RECURSIVE LastIndexFrom(_, _, _)
LastIndexFrom(s, c, i) ==
    IF i < 1 THEN -1
    ELSE IF s[i] = c THEN i - 1
    ELSE LastIndexFrom(s, c, i - 1)

\* decoded.lastIndexOf(":")
SeparatorIndexLast(decoded) == LastIndexFrom(decoded, Colon, Len(decoded))

\* decoded.indexOf(":")
SeparatorIndex(decoded) == indexOf(decoded, Colon)

\* index === -1 || /[\0-\x1F\x7F]/.test(decoded)
InvalidCredential(decoded) == SeparatorIndex(decoded) = -1 \/ HasControl(decoded)

basicAuthentication(Authorization) ==
    LET raw == atob(EncodedPart(Authorization))
        decoded == TextDecode(raw.bytes)
        index == SeparatorIndex(decoded)
    IN  IF ~raw.ok
        THEN [ok |-> FALSE, err |-> InvalidCharacterError,
              username |-> <<>>, password |-> <<>>]
        ELSE IF InvalidCredential(decoded)
        THEN [ok |-> FALSE,
              err |-> BadRequestException(Text("Invalid authorization value.")),
              username |-> <<>>, password |-> <<>>]
        ELSE [ok |-> TRUE, err |-> NoError,
              username |-> substring(decoded, 0, index),
              password |-> substring(decoded, index + 1, Len(decoded))]

\* url.searchParams: a URL object always has one
HasSearchParams(url) == TRUE

\* !url.searchParams.get("hostname"): null (absent) and "" are both falsy
MissingHostname(url) == ~url.hasHostname \/ url.hostname = <<>>

verifyParameters(url) ==
    IF ~HasSearchParams(url)
    THEN [ok |-> FALSE,
          err |-> BadRequestException(Text("You must include proper query parameters"))]
    ELSE IF MissingHostname(url)
    THEN [ok |-> FALSE, err |-> BadRequestException(Text("You must specify a hostname"))]
    ELSE [ok |-> TRUE, err |-> NoError]

----------------------------------------------------------------------------
(* Request router: handleRequest up to its first await *)

\* the transport check with && in place of ||
InsecureTransportBoth(req) == "https:" # req.protocol /\ "https" # req.xfp

\* "https:" !== protocol || "https" !== request.headers.get("x-forwarded-proto")
InsecureTransport(req) == "https:" # req.protocol \/ "https" # req.xfp

UpdatePaths == {"/nic/update", "/update"}
StaticPaths == {"/favicon.ico", "/robots.txt"}

Thrown(err, entered) ==
    [kind |-> "throw", response |-> NoResponse, err |-> err, steps |-> entered,
     username |-> <<>>, password |-> <<>>]

Returned(resp) ==
    [kind |-> "return", response |-> resp, err |-> NoError, steps |-> <<>>,
     username |-> <<>>, password |-> <<>>]

\* the router without the /favicon.ico and /robots.txt case
RouteStaticNotFound(req) ==
    IF req.pathname = "/myip" THEN Returned(Response(Raw(req.ip), 200))
    ELSE Returned(Response(Text("Not Found."), 404))

\* what handleRequest returns for a path that needs no credentials
RouteStatic(req) ==
    IF req.pathname = "/myip" THEN Returned(Response(Raw(req.ip), 200))
    ELSE IF req.pathname \in StaticPaths THEN Returned(Response(EmptyText, 204))
    ELSE Returned(Response(Text("Not Found."), 404))

\* the update case that parses whatever Authorization.get() returned
RouteUpdateAlwaysParse(req) ==
    LET auth == basicAuthentication(req.authorization)
        checked == verifyParameters(req)
    IN  IF ~auth.ok THEN Thrown(auth.err, <<"basicAuthentication">>)
        ELSE IF ~checked.ok
        THEN Thrown(checked.err, <<"basicAuthentication", "verifyParameters">>)
        ELSE [kind |-> "await", response |-> NoResponse, err |-> NoError,
              steps |-> <<"basicAuthentication", "verifyParameters", "informAPI">>,
              username |-> auth.username, password |-> auth.password]

\* the update case that validates the parameters before it parses the credentials
RouteUpdateParametersFirst(req) ==
    IF req.hasAuthorization
    THEN LET auth == basicAuthentication(req.authorization)
             checked == verifyParameters(req)
         IN  IF ~checked.ok THEN Thrown(checked.err, <<"verifyParameters">>)
             ELSE IF ~auth.ok
             THEN Thrown(auth.err, <<"verifyParameters", "basicAuthentication">>)
             ELSE [kind |-> "await", response |-> NoResponse, err |-> NoError,
                   steps |-> <<"verifyParameters", "basicAuthentication", "informAPI">>,
                   username |-> auth.username, password |-> auth.password]
    ELSE Thrown(BadRequestException(Text("Please provide valid credentials.")), <<>>)

\* the /nic/update and /update case up to the call of informAPI
RouteUpdate(req) ==
    IF req.hasAuthorization
    THEN LET auth == basicAuthentication(req.authorization)
             checked == verifyParameters(req)
         IN  IF ~auth.ok THEN Thrown(auth.err, <<"basicAuthentication">>)
             ELSE IF ~checked.ok
             THEN Thrown(checked.err, <<"basicAuthentication", "verifyParameters">>)
             ELSE [kind |-> "await", response |-> NoResponse, err |-> NoError,
                   steps |-> <<"basicAuthentication", "verifyParameters", "informAPI">>,
                   username |-> auth.username, password |-> auth.password]
    ELSE Thrown(BadRequestException(Text("Please provide valid credentials.")), <<>>)

handleRequest(req) ==
    IF InsecureTransport(req)
    THEN Thrown(BadRequestException(Text("Please use a HTTPS connection.")), <<>>)
    ELSE IF req.pathname \in UpdatePaths THEN RouteUpdate(req)
    ELSE RouteStatic(req)

----------------------------------------------------------------------------
(* The provider: zones, records and the bodies it answers with *)

UserA == <<97>>
UserB == <<98>>
TokenT == <<116>>
TokenU == <<117>>
HostA == <<104>>
HostB == <<105>>
IpA == <<49>>
IpB == <<50>>
OldIp == <<48>>

NoZone == [id |-> "", name |-> <<>>]
NoRecord == [id |-> "", zone_id |-> "", name |-> <<>>, type |-> "", content |-> <<>>]

\* the zones the provider lists, in the order it lists them: two zones are named
\* UserA, none is named UserB
Zones == << [id |-> "z1", name |-> UserA], [id |-> "z2", name |-> UserA] >>

\* the order in which the provider lists records
RecordIds == <<"r1", "r2", "r3">>

\* the records before any request: HostA has an A and an AAAA record in z1 and an
\* A record in z2; HostB has none
InitialDns ==
    [id \in {"r1", "r2", "r3"} |->
        [id |-> id,
         zone_id |-> IF id = "r3" THEN "z2" ELSE "z1",
         name |-> HostA,
         type |-> IF id = "r2" THEN "AAAA" ELSE "A",
         content |-> OldIp]]

\* body.success is true, false or missing
Success == {"true", "false", "absent"}

\* GET /zones?name=${name}
FindZoneCall(token, name) ==
    [op |-> "findZone", method |-> "GET", zone_id |-> "", record_id |-> "",
     name |-> name, bearer |-> token, body |-> NoRecord]

\* GET /zones/${zone.id}/dns_records?name=${name}
FindRecordCall(token, zone, name) ==
    [op |-> "findRecord", method |-> "GET", zone_id |-> zone.id, record_id |-> "",
     name |-> name, bearer |-> token, body |-> NoRecord]

\* PUT /zones/${record.zone_id}/dns_records/${record.id} with JSON.stringify(record)
UpdateRecordCall(token, record) ==
    [op |-> "updateRecord", method |-> "PUT", zone_id |-> record.zone_id,
     record_id |-> record.id, name |-> <<>>, bearer |-> token, body |-> record]

\* the provider's body for a zone listing: an error body (success false) lists
\* nothing, a body that lacks the success field still lists the matches
ZoneListing(call, flag) ==
    [success |-> flag,
     zones |-> IF flag # "false" THEN SelectSeq(Zones, LAMBDA z : z.name = call.name)
               ELSE <<>>,
     records |-> <<>>]

\* the provider's body for a record listing, likewise
RecordListing(call, flag, store) ==
    [success |-> flag,
     zones |-> <<>>,
     records |-> IF flag # "false"
                 THEN SelectSeq([i \in 1..Len(RecordIds) |-> store[RecordIds[i]]],
                                LAMBDA rec : rec.zone_id = call.zone_id
                                             /\ rec.name = call.name)
                 ELSE <<>>]

\* the provider's body for an update: the result may or may not carry the record
UpdateResult(call, flag, echo) ==
    [success |-> flag,
     zones |-> <<>>,
     records |-> IF flag = "true" /\ echo THEN <<call.body>> ELSE <<>>]

\* the provider's records after an update call it answered with flag
StoreAfter(call, flag, store) ==
    IF flag = "true" THEN [store EXCEPT ![call.record_id] = call.body] ELSE store

----------------------------------------------------------------------------
(* DNS provider client: the continuations of informAPI *)

\* new Cloudflare({token}): if (options.token) this.token = options.token; an
\* empty password leaves this.token undefined, sent as "Bearer undefined"
ClientToken(password) == IF password # <<>> THEN password ELSE UndefinedText

\* what stands in answers[r] for a fetch() that rejected or a body that was no JSON
NoBody == [success |-> "no body", zones |-> <<>>, records |-> <<>>]

\* the TypeError of a rejected fetch() or response.json(): a stack, no status, no reason
FetchError ==
    [name |-> "TypeError", status |-> 0, statusText |-> "", reason |-> EmptyText,
     stack |-> "TypeError: fetch failed"]

\* findZone that looks at the result alone
findZoneAnyFlag(body, name) ==
    IF body = NoBody THEN [ok |-> FALSE, err |-> FetchError, zone |-> NoZone]
    ELSE IF Len(body.zones) = 0
    THEN [ok |-> FALSE,
          err |-> CloudflareApiException(Quoted("Failed to find zone '", name)),
          zone |-> NoZone]
    ELSE [ok |-> TRUE, err |-> NoError, zone |-> body.zones[1]]

\* findZone after response.json()
findZone(body, name) ==
    IF body = NoBody THEN [ok |-> FALSE, err |-> FetchError, zone |-> NoZone]
    ELSE IF body.success # "true" \/ Len(body.zones) = 0
    THEN [ok |-> FALSE,
          err |-> CloudflareApiException(Quoted("Failed to find zone '", name)),
          zone |-> NoZone]
    ELSE [ok |-> TRUE, err |-> NoError, zone |-> body.zones[1]]

\* findRecord that goes on without a match
findRecordLenient(body, name) ==
    IF body = NoBody THEN [ok |-> FALSE, err |-> FetchError, record |-> NoRecord]
    ELSE IF body.success # "true"
    THEN [ok |-> FALSE,
          err |-> CloudflareApiException(Quoted("Failed to find dns record '", name)),
          record |-> NoRecord]
    ELSE [ok |-> TRUE, err |-> NoError,
          record |-> IF Len(body.records) = 0 THEN NoRecord ELSE body.records[1]]

\* findRecord after response.json()
findRecord(body, name) ==
    IF body = NoBody THEN [ok |-> FALSE, err |-> FetchError, record |-> NoRecord]
    ELSE IF body.success # "true" \/ Len(body.records) = 0
    THEN [ok |-> FALSE,
          err |-> CloudflareApiException(Quoted("Failed to find dns record '", name)),
          record |-> NoRecord]
    ELSE [ok |-> TRUE, err |-> NoError, record |-> body.records[1]]

\* the new content appended to the old
SetContentAppended(record, value) == [record EXCEPT !.content = @ \o value]

\* a fresh record with the new content in place of the fetched one
SetContentFresh(record, value) ==
    [NoRecord EXCEPT !.id = record.id, !.zone_id = record.zone_id, !.content = value]

\* record.content = value
SetContent(record, value) == [record EXCEPT !.content = value]

\* updateRecord without the check of body.success
updateRecordUnchecked(body) ==
    IF body = NoBody THEN [ok |-> FALSE, err |-> FetchError]
    ELSE [ok |-> TRUE, err |-> NoError]

\* updateRecord after response.json(): body.result[0] of an empty result is
\* undefined and is returned without complaint
updateRecord(body) ==
    IF body = NoBody THEN [ok |-> FALSE, err |-> FetchError]
    ELSE IF body.success # "true"
    THEN [ok |-> FALSE, err |-> CloudflareApiException(Text("Failed to update dns record"))]
    ELSE [ok |-> TRUE, err |-> NoError]

----------------------------------------------------------------------------
(* Requests *)

Req == 1..NumReq

NoRequest ==
    [protocol |-> "", xfp |-> "", pathname |-> "", hasAuthorization |-> FALSE,
     authorization |-> <<>>, hasHostname |-> FALSE, hostname |-> <<>>, ip |-> <<>>]

NoLocals ==
    [reqip |-> <<>>, username |-> <<>>, token |-> <<>>, hostname |-> <<>>,
     zone |-> NoZone, record |-> NoRecord]

\* Authorization: Basic <base64(user:password)>
Credential(user, password) == user \o <<Colon>> \o password
BasicHeader(decoded) == BasicScheme \o <<Space>> \o btoa(decoded)

NoAuthorization == [has |-> FALSE, value |-> <<>>]
Authorization(value) == [has |-> TRUE, value |-> value]

\* well-formed credentials: two tokens for UserA, one for UserB
GoodAuthorizations ==
    { Authorization(BasicHeader(Credential(UserA, TokenT))),
      Authorization(BasicHeader(Credential(UserA, TokenU))),
      Authorization(BasicHeader(Credential(UserB, TokenT))) }

\* no colon; a DEL in the password, with either token before it; no encoded part;
\* an encoded part that is not base64
BadAuthorizations ==
    { Authorization(BasicHeader(UserA)),
      Authorization(BasicHeader(Credential(UserA, <<DEL>>))),
      Authorization(BasicHeader(Credential(UserA, TokenU \o <<DEL>>))),
      Authorization(BasicScheme),
      Authorization(BasicScheme \o <<Space, 33>>) }

NoHostname == [has |-> FALSE, value |-> <<>>]
Hostname(value) == [has |-> TRUE, value |-> value]

MakeRequest(protocol, xfp, pathname, auth, host, ip) ==
    [protocol |-> protocol, xfp |-> xfp, pathname |-> pathname,
     hasAuthorization |-> auth.has, authorization |-> auth.value,
     hasHostname |-> host.has, hostname |-> host.value, ip |-> ip]

\* every combination of scheme, forwarded protocol, path, credentials, hostname
\* parameter and caller address
AnyRequest ==
    { MakeRequest(protocol, xfp, pathname, auth, host, ip) :
        protocol \in {"https:", "http:"},
        xfp \in {"https", "http", ""},
        pathname \in {"/myip", "/update", "/nic/update", "/favicon.ico",
                      "/robots.txt", "/other"},
        auth \in {NoAuthorization} \cup GoodAuthorizations \cup BadAuthorizations,
        host \in {NoHostname, Hostname(<<>>), Hostname(HostA), Hostname(HostB)},
        ip \in {IpA, IpB} }

SecureUpdate(auth, host, ip) == MakeRequest("https:", "https", "/update", auth, host, ip)

\* the update requests that several clients send at the same time: UserA with
\* TokenT from either address and with TokenU; UserB; two that lack the forwarded
\* protocol; two without a hostname; two whose credentials carry a DEL; one
\* whose Authorization has no encoded part
UpdateRequest ==
    { SecureUpdate(Authorization(BasicHeader(Credential(UserA, TokenT))), Hostname(HostA), ip) :
        ip \in {IpA, IpB} }
    \cup { SecureUpdate(Authorization(BasicHeader(Credential(user, token))),
                        Hostname(HostA), IpA) :
        user \in {UserA, UserB}, token \in {TokenT, TokenU} }
    \cup { MakeRequest("https:", "http", "/update",
                       Authorization(BasicHeader(Credential(UserA, token))),
                       Hostname(HostA), IpA) : token \in {TokenT, TokenU} }
    \cup { SecureUpdate(Authorization(BasicHeader(Credential(UserA, token))), NoHostname, IpA) :
        token \in {TokenT, TokenU} }
    \cup { SecureUpdate(Authorization(BasicHeader(Credential(UserA, password))),
                        Hostname(HostA), IpA) :
        password \in {<<DEL>>, TokenU \o <<DEL>>} }
    \cup { SecureUpdate(Authorization(BasicScheme), Hostname(HostA), IpA) }

\* the characters of the credential texts given to the credential parser
CredAlphabet == {97, 112, Colon, 0, LastC0, DEL}

\* "alice:p@ss:word"
AliceText == <<97, 108, 105, 99, 101, 58, 112, 64, 115, 115, 58, 119, 111, 114, 100>>

\* every text of at most MaxCredLen of these characters, and the example
CredText == UNION {[1..n -> CredAlphabet] : n \in 0..MaxCredLen} \cup {AliceText}

----------------------------------------------------------------------------
(* Actions *)

Idle ==
    /\ request = [r \in Req |-> NoRequest]
    /\ pc = [r \in Req |-> "idle"]
    /\ locals = [r \in Req |-> NoLocals]
    /\ steps = [r \in Req |-> <<>>]
    /\ calls = [r \in Req |-> <<>>]
    /\ answers = [r \in Req |-> <<>>]
    /\ response = [r \in Req |-> NoResponse]
    /\ thrown = [r \in Req |-> NoError]
    /\ dns = InitialDns
    /\ applied = [r \in Req |-> NoRecord]
    /\ doneBefore = [r \in Req |-> {}]
    /\ parserOut = [done |-> FALSE, ok |-> FALSE, err |-> NoError,
                    username |-> <<>>, password |-> <<>>]

\* the worker before any request
Init == Idle /\ parserIn = <<>>

\* the credential parser before it is given a text
InitParser == Idle /\ parserIn \in CredText

\* informAPI keeping the caller's address in a variable all requests share:
\* a later request starts from the address of the first
informAPISharedIp(ip, hostname, name, token) ==
    [reqip |-> IF request[1] # NoRequest THEN request[1].ip ELSE ip,
     username |-> name, token |-> ClientToken(token),
     hostname |-> hostname, zone |-> NoZone, record |-> NoRecord]

\* informAPI called with the user name and the password swapped
informAPISwapped(ip, hostname, name, token) ==
    [reqip |-> ip, username |-> token, token |-> ClientToken(name),
     hostname |-> hostname, zone |-> NoZone, record |-> NoRecord]

\* informAPI up to its first await: the locals it starts with
informAPI(ip, hostname, name, token) ==
    [reqip |-> ip, username |-> name, token |-> ClientToken(token),
     hostname |-> hostname, zone |-> NoZone, record |-> NoRecord]

\* requests are numbered in the order they arrive
InArrivalOrder(r) == IF r = 1 THEN TRUE ELSE pc[r - 1] # "idle"

\* the fetch listener runs handleRequest(req) for r up to its first await:
\* either the request is answered, or informAPI has issued the zone lookup
Deliver(r, req) ==
    LET out == handleRequest(req)
        started == informAPI(req.ip, req.hostname, out.username, out.password)
    IN  /\ pc[r] = "idle"
        /\ InArrivalOrder(r)
        /\ request' = [request EXCEPT ![r] = req]
        /\ steps' = [steps EXCEPT ![r] = out.steps]
        /\ doneBefore' = [doneBefore EXCEPT ![r] = {q \in Req : pc[q] = "done"}]
        /\ IF out.kind = "await"
           THEN /\ locals' = [locals EXCEPT ![r] = started]
                /\ calls' = [calls EXCEPT ![r] =
                        <<FindZoneCall(started.token, started.username)>>]
                /\ pc' = [pc EXCEPT ![r] = "findZone"]
                /\ UNCHANGED <<response, thrown>>
           ELSE /\ response' = [response EXCEPT ![r] =
                        IF out.kind = "throw" THEN CatchResponse(out.err)
                        ELSE out.response]
                /\ thrown' = [thrown EXCEPT ![r] = out.err]
                /\ pc' = [pc EXCEPT ![r] = "done"]
                /\ UNCHANGED <<locals, calls>>
        /\ UNCHANGED <<answers, dns, applied, parserIn, parserOut>>

\* a request of any shape arrives
ReceiveAny(r) == \E req \in AnyRequest : Deliver(r, req)

\* an update request arrives
ReceiveUpdate(r) == \E req \in UpdateRequest : Deliver(r, req)

LastCall(r) == calls[r][Len(calls[r])]

\* the Authorization value "Basic <base64(parserIn)>" is parsed
ParseCredential ==
    /\ ~parserOut.done
    /\ parserOut' = LET got == basicAuthentication(BasicHeader(parserIn))
                    IN  [done |-> TRUE, ok |-> got.ok, err |-> got.err,
                         username |-> got.username, password |-> got.password]
    /\ UNCHANGED <<request, pc, locals, steps, calls, answers, response, thrown, dns,
                   applied, doneBefore, parserIn>>

\* the zone lookup of r completes; on success the record lookup is issued
ZoneReply(r) ==
    /\ pc[r] = "findZone"
    /\ \E body \in {ZoneListing(LastCall(r), flag) : flag \in Success} \cup {NoBody} :
        LET got == findZone(body, locals[r].username)
        IN  /\ answers' = [answers EXCEPT ![r] = Append(@, body)]
            /\ IF got.ok
               THEN /\ locals' = [locals EXCEPT ![r].zone = got.zone]
                    /\ calls' = [calls EXCEPT ![r] = Append(@,
                            FindRecordCall(locals[r].token, got.zone, locals[r].hostname))]
                    /\ pc' = [pc EXCEPT ![r] = "findRecord"]
                    /\ UNCHANGED <<response, thrown>>
               ELSE /\ response' = [response EXCEPT ![r] = CatchResponse(got.err)]
                    /\ thrown' = [thrown EXCEPT ![r] = got.err]
                    /\ pc' = [pc EXCEPT ![r] = "done"]
                    /\ UNCHANGED <<locals, calls>>
    /\ UNCHANGED <<request, steps, dns, applied, doneBefore, parserIn, parserOut>>

\* the record lookup of r completes; on success updateRecord sets the content
\* and issues the PUT
RecordReply(r) ==
    /\ pc[r] = "findRecord"
    /\ \E body \in {RecordListing(LastCall(r), flag, dns) : flag \in Success} \cup {NoBody} :
        LET got == findRecord(body, locals[r].hostname)
            record == SetContent(got.record, locals[r].reqip)
        IN  /\ answers' = [answers EXCEPT ![r] = Append(@, body)]
            /\ IF got.ok
               THEN /\ locals' = [locals EXCEPT ![r].record = record]
                    /\ calls' = [calls EXCEPT ![r] = Append(@,
                            UpdateRecordCall(locals[r].token, record))]
                    /\ pc' = [pc EXCEPT ![r] = "updateRecord"]
                    /\ UNCHANGED <<response, thrown>>
               ELSE /\ response' = [response EXCEPT ![r] = CatchResponse(got.err)]
                    /\ thrown' = [thrown EXCEPT ![r] = got.err]
                    /\ pc' = [pc EXCEPT ![r] = "done"]
                    /\ UNCHANGED <<locals, calls>>
    /\ UNCHANGED <<request, steps, dns, applied, doneBefore, parserIn, parserOut>>

\* the provider handles the PUT of r and answers; informAPI returns or throws
UpdateReply(r) ==
    /\ pc[r] = "updateRecord"
    /\ \E flag \in Success \cup {"no body"}, echo \in BOOLEAN :
        LET call == LastCall(r)
            body == IF flag = "no body" THEN NoBody ELSE UpdateResult(call, flag, echo)
            got == updateRecord(body)
        IN  /\ echo \/ flag = "true"
            /\ dns' = StoreAfter(call, flag, dns)
            /\ applied' = [applied EXCEPT ![r] =
                    IF flag = "true" THEN dns'[call.record_id] ELSE NoRecord]
            /\ answers' = [answers EXCEPT ![r] = Append(@, body)]
            /\ response' = [response EXCEPT ![r] =
                    IF got.ok THEN GoodResponse ELSE CatchResponse(got.err)]
            /\ thrown' = [thrown EXCEPT ![r] = got.err]
            /\ pc' = [pc EXCEPT ![r] = "done"]
    /\ UNCHANGED <<request, locals, steps, calls, doneBefore, parserIn, parserOut>>

----------------------------------------------------------------------------
(* Specifications *)

\* several clients send update requests; the handlers interleave at their awaits
Next ==
    \E r \in Req :
        \/ ReceiveUpdate(r)
        \/ ZoneReply(r)
        \/ RecordReply(r)
        \/ UpdateReply(r)

Spec == Init /\ [][Next]_vars

\* one request of any shape, handled to its response
NextRouting ==
    \/ ReceiveAny(1)
    \/ ZoneReply(1)
    \/ RecordReply(1)
    \/ UpdateReply(1)

SpecRouting == Init /\ [][NextRouting]_vars

\* the credential parser applied to one decoded text
NextParser == ParseCredential

SpecParser == InitParser /\ [][NextParser]_vars

----------------------------------------------------------------------------
(* What the claims speak of *)

Answered(r) == pc[r] = "done"

\* the operations of the remote calls r has issued, in order
RemoteOps(r) == [i \in 1..Len(calls[r]) |-> calls[r][i].op]

UpdateSequence == <<"findZone", "findRecord", "updateRecord">>

IsPrefix(s, t) == Len(s) <= Len(t) /\ s = SubSeq(t, 1, Len(s))

\* the i-th provider answer reports success (and, for a lookup, a match)
StepSucceeded(body, i) ==
    /\ body.success = "true"
    /\ i = 1 => Len(body.zones) > 0
    /\ i = 2 => Len(body.records) > 0

AllThreeSucceeded(r) ==
    /\ Len(answers[r]) = 3
    /\ \A i \in 1..3 : StepSucceeded(answers[r][i], i)

IsGood(resp) ==
    /\ resp.status = 200
    /\ resp.body = Text("good")
    /\ resp.contentType = "text/plain;charset=UTF-8"
    /\ resp.cacheControl = "no-store"

IsInvalidRequest(resp) == resp.status = 400 /\ resp.statusText = "Bad Request"

IsProviderError(resp, reason) ==
    /\ resp.status = 500
    /\ resp.statusText = "Internal Server Error"
    /\ resp.body = reason

----------------------------------------------------------------------------
(* C1 *)

\* C1: a request whose URL scheme is not https or whose x-forwarded-proto is
\* not "https" is answered 400 Bad Request whatever its path, and no remote
\* call is issued for it.
C1_InsecureRejected ==
    \A r \in Req :
        (pc[r] # "idle" /\ (request[r].protocol # "https:" \/ request[r].xfp # "https"))
            => /\ Answered(r)
               /\ IsInvalidRequest(response[r])
               /\ calls[r] = <<>>

\* an https URL without the forwarded protocol, on an update path with good
\* credentials and a hostname, has been answered
C1_Witness ==
    \E r \in Req :
        /\ Answered(r)
        /\ request[r].protocol = "https:"
        /\ request[r].xfp = ""
        /\ request[r].pathname = "/nic/update"
        /\ request[r].authorization = BasicHeader(Credential(UserA, TokenT))
        /\ request[r].hostname = HostA
        /\ response[r].status = 400

----------------------------------------------------------------------------
(* C2 *)

\* C2: an update request whose zone lookup, record lookup and update all
\* succeeded is answered exactly 200 "good" with Content-Type
\* text/plain;charset=UTF-8 and Cache-Control no-store; and an update request is
\* answered 200 "good" only when all three remote steps succeeded.
C2_GoodIffAllSucceeded ==
    \A r \in Req :
        (Answered(r) /\ request[r].pathname \in UpdatePaths)
            => /\ AllThreeSucceeded(r) => IsGood(response[r])
               /\ (response[r].status = 200 \/ response[r].body = Text("good"))
                    => (AllThreeSucceeded(r) /\ IsGood(response[r]))

\* an update on /nic/update went through all three steps and was answered "good"
C2_Witness ==
    \E r \in Req :
        /\ Answered(r)
        /\ request[r].pathname = "/nic/update"
        /\ AllThreeSucceeded(r)
        /\ IsGood(response[r])

----------------------------------------------------------------------------
(* C3 *)

\* C3: in a successful update the record submitted is the first record the
\* record lookup returned for the request's hostname in the first zone the zone
\* lookup returned, with content set to the request's cf-connecting-ip and
\* every other field as fetched.
C3_SubmittedRecord ==
    \A r \in Req :
        (Answered(r) /\ IsGood(response[r]))
            => LET zone == answers[r][1].zones[1]
                   fetched == answers[r][2].records[1]
                   put == calls[r][3]
               IN  /\ calls[r][2].zone_id = zone.id
                   /\ calls[r][2].name = request[r].hostname
                   /\ put.zone_id = fetched.zone_id
                   /\ put.record_id = fetched.id
                   /\ put.body.content = request[r].ip
                   /\ put.body = [fetched EXCEPT !.content = request[r].ip]
                   /\ applied[r] = [fetched EXCEPT !.content = request[r].ip]

\* a successful update whose lookups each returned two matches and whose
\* fetched record held another address
C3_Witness ==
    \E r \in Req :
        /\ Answered(r)
        /\ IsGood(response[r])
        /\ Len(answers[r][1].zones) = 2
        /\ Len(answers[r][2].records) = 2
        /\ answers[r][2].records[1].content # request[r].ip
        /\ answers[r][2].records[1].type = "A"
        /\ calls[r][3].body.content = request[r].ip

----------------------------------------------------------------------------
(* C4 *)

\* the reason of the ProviderError of step i
ProviderReason(r, i) ==
    IF i = 1 THEN Quoted("Failed to find zone '", locals[r].username)
    ELSE IF i = 2 THEN Quoted("Failed to find dns record '", request[r].hostname)
    ELSE Text("Failed to update dns record")

\* C4: within one update request the remote calls form a prefix of zone lookup,
\* record lookup, update: each at most once, each only after the one before it
\* succeeded; after the first failing step no further call is issued and the
\* request ends with the ProviderError of that step.
C4_SequentialShortCircuit ==
    \A r \in Req :
        /\ IsPrefix(RemoteOps(r), UpdateSequence)
        /\ Len(answers[r]) <= Len(calls[r])
        /\ Len(calls[r]) <= Len(answers[r]) + 1
        /\ \A i \in 1..Len(calls[r]) :
            \A j \in 1..(i - 1) : StepSucceeded(answers[r][j], j)
        /\ \A i \in 1..Len(answers[r]) :
            ~StepSucceeded(answers[r][i], i)
                => /\ Len(calls[r]) = i
                   /\ Answered(r)
                   /\ response[r].status = 500
                   /\ answers[r][i] # NoBody
                        => IsProviderError(response[r], ProviderReason(r, i))

\* a zone lookup that succeeded with zero matches ended the request
C4_Witness ==
    \E r \in Req :
        /\ Answered(r)
        /\ Len(answers[r]) = 1
        /\ answers[r][1].success = "true"
        /\ answers[r][1].zones = <<>>
        /\ RemoteOps(r) = <<"findZone">>
        /\ IsProviderError(response[r], Quoted("Failed to find zone '", UserB))

----------------------------------------------------------------------------
(* C5 *)

\* C5: an update request with no hostname parameter (absent or empty) is
\* answered 400 Bad Request and no remote call is issued for it.
C5_NoHostnameRejected ==
    \A r \in Req :
        (pc[r] # "idle" /\ request[r].pathname \in UpdatePaths
            /\ (~request[r].hasHostname \/ request[r].hostname = <<>>))
            => /\ Answered(r)
               /\ IsInvalidRequest(response[r])
               /\ calls[r] = <<>>

----------------------------------------------------------------------------
(* C6 *)

\* the Authorization values of two credentials of one user with different passwords
PasswordVariants ==
    { <<BasicHeader(Credential(user, p)), BasicHeader(Credential(user, q))>> :
        user \in {UserA, UserB},
        p \in {TokenT, TokenU, <<DEL>>, TokenU \o <<DEL>>},
        q \in {TokenT, TokenU, <<DEL>>, TokenU \o <<DEL>>} }
    \ { <<h, h>> : h \in {a.value : a \in GoodAuthorizations \cup BadAuthorizations} }

\* the requests a and b differ in nothing but the password of their credentials
DifferOnlyInPassword(a, b) ==
    /\ a.hasAuthorization /\ b.hasAuthorization
    /\ a.authorization # b.authorization
    /\ [a EXCEPT !.authorization = <<>>] = [b EXCEPT !.authorization = <<>>]
    /\ <<a.authorization, b.authorization>> \in PasswordVariants

----------------------------------------------------------------------------
(* C7 *)

\* C7 as stated: /favicon.ico and /robots.txt are always answered 204 with an
\* empty body, without the credential parser and without a remote call.
C7_StaticAlways204 ==
    \A r \in Req :
        (pc[r] # "idle" /\ request[r].pathname \in StaticPaths)
            => /\ Answered(r)
               /\ response[r].status = 204
               /\ response[r].body = EmptyText
               /\ steps[r] = <<>>
               /\ calls[r] = <<>>

\* C7 amended: over secure transport /favicon.ico and /robots.txt are answered
\* 204 with an empty body; over any transport they are answered without the
\* credential parser and without a remote call.
C7_StaticSecure204 ==
    \A r \in Req :
        (pc[r] # "idle" /\ request[r].pathname \in StaticPaths)
            => /\ Answered(r)
               /\ steps[r] = <<>>
               /\ calls[r] = <<>>
               /\ (request[r].protocol = "https:" /\ request[r].xfp = "https")
                    => (response[r].status = 204 /\ response[r].body = EmptyText)

\* a secure /robots.txt request that carried credentials was answered 204
C7_Witness ==
    \E r \in Req :
        /\ Answered(r)
        /\ request[r].pathname = "/robots.txt"
        /\ request[r].protocol = "https:" /\ request[r].xfp = "https"
        /\ request[r].hasAuthorization
        /\ response[r].status = 204

----------------------------------------------------------------------------
(* C8 *)

\* a secure request to an update path without an Authorization header
UpdateWithoutAuthorization(r) ==
    /\ pc[r] # "idle"
    /\ request[r].protocol = "https:" /\ request[r].xfp = "https"
    /\ request[r].pathname \in UpdatePaths
    /\ ~request[r].hasAuthorization

\* C8 as stated: such a request fails with 400 and the reason "missing
\* credentials", without credential parsing, parameter validation or a remote call.
C8_MissingCredentialsReason ==
    \A r \in Req :
        UpdateWithoutAuthorization(r)
            => /\ Answered(r)
               /\ IsInvalidRequest(response[r])
               /\ response[r].body = Text("missing credentials")
               /\ steps[r] = <<>>
               /\ calls[r] = <<>>

\* C8 amended: such a request fails with 400 and the reason "Please provide
\* valid credentials.", without credential parsing, parameter validation or a
\* remote call.
C8_ProvideCredentialsReason ==
    \A r \in Req :
        UpdateWithoutAuthorization(r)
            => /\ Answered(r)
               /\ IsInvalidRequest(response[r])
               /\ response[r].body = Text("Please provide valid credentials.")
               /\ steps[r] = <<>>
               /\ calls[r] = <<>>

\* a secure /update request with a hostname and no Authorization was answered
C8_Witness ==
    \E r \in Req :
        /\ UpdateWithoutAuthorization(r)
        /\ Answered(r)
        /\ request[r].pathname = "/update"
        /\ request[r].hostname = HostA
        /\ response[r].status = 400

----------------------------------------------------------------------------
(* C9 *)

\* C9: the same update request issued again after it succeeded, with the
\* provider succeeding again, is answered 200 "good" again and leaves the
\* remote record in the state the first update left it in.
C9_UpdateIdempotent ==
    \A a, b \in Req :
        (/\ Answered(b)
         /\ a \in doneBefore[b]
         /\ IsGood(response[a])
         /\ request[a] = request[b]
         /\ AllThreeSucceeded(b))
            => /\ IsGood(response[b])
               /\ applied[a] # NoRecord
               /\ applied[b] = applied[a]

\* the second of two equal updates found the record already holding the
\* caller's address and was answered "good" as the first was
C9_Witness ==
    \E a, b \in Req :
        /\ Answered(b)
        /\ a \in doneBefore[b]
        /\ request[a] = request[b]
        /\ IsGood(response[a]) /\ IsGood(response[b])
        /\ answers[a][2].records[1].content = OldIp
        /\ answers[b][2].records[1].content = request[b].ip
        /\ applied[b] = applied[a]
        /\ dns[applied[b].id] = applied[b]

----------------------------------------------------------------------------
(* C10 *)

\* "alice" and "p@ss:word"
AliceUser == <<97, 108, 105, 99, 101>>
AlicePassword == <<112, 64, 115, 115, 58, 119, 111, 114, 100>>

\* C10: the credential parser fails with 400 Bad Request exactly when the
\* decoded text has no colon or has an ASCII control character (0x00-0x1F,
\* 0x7F) anywhere; otherwise the user name is the text before the first colon
\* and the password everything after that colon.
C10_CredentialParser ==
    parserOut.done =>
        LET text == parserIn
            noColon == \A i \in 1..Len(text) : text[i] # 58
            control == \E i \in 1..Len(text) : text[i] \in (0..31) \cup {127}
        IN  /\ parserOut.ok <=> ~(noColon \/ control)
            /\ ~parserOut.ok =>
                /\ parserOut.err.status = 400
                /\ parserOut.err.name = "BadRequestException"
            /\ parserOut.ok =>
                \E i \in 1..Len(text) :
                    /\ text[i] = 58
                    /\ \A j \in 1..(i - 1) : text[j] # 58
                    /\ parserOut.username = SubSeq(text, 1, i - 1)
                    /\ parserOut.password = SubSeq(text, i + 1, Len(text))
            /\ text = AliceText =>
                /\ parserOut.username = AliceUser
                /\ parserOut.password = AlicePassword

\* "alice:p@ss:word" was parsed into "alice" and "p@ss:word"
C10_Witness ==
    /\ parserOut.done
    /\ parserIn = AliceText
    /\ parserOut.ok
    /\ parserOut.username = AliceUser
    /\ parserOut.password = AlicePassword

----------------------------------------------------------------------------
(* C11 *)

\* the result list of the i-th provider answer
ResultOf(body, i) == IF i = 1 THEN body.zones ELSE body.records

\* C11 as stated: each of the three provider operations treats an answer whose
\* success flag is absent or not true, or whose result list is empty, as a
\* failure and raises the ProviderError of that operation; an update answer
\* with success set and an empty result never leads to 200 "good".
C11_EveryStepNeedsResult ==
    \A r \in Req :
        \A i \in 1..Len(answers[r]) :
            (/\ answers[r][i] # NoBody
             /\ (answers[r][i].success # "true" \/ Len(ResultOf(answers[r][i], i)) = 0))
                => /\ Answered(r)
                   /\ IsProviderError(response[r], ProviderReason(r, i))

\* C11 amended: the zone lookup and the record lookup treat an answer whose
\* success flag is absent or not true, or whose result list is empty, as a
\* failure and raise their ProviderError; the update treats an answer whose
\* success flag is absent or not true as a failure and raises its ProviderError,
\* and an update answer with success set leads to 200 "good" whether or not
\* its result is empty.
C11_LookupsNeedResult ==
    \A r \in Req :
        \A i \in 1..Len(answers[r]) :
            LET body == answers[r][i]
            IN  /\ (/\ body # NoBody
                    /\ (body.success # "true" \/ (i < 3 /\ Len(ResultOf(body, i)) = 0)))
                        => /\ Answered(r)
                           /\ IsProviderError(response[r], ProviderReason(r, i))
                /\ (i = 3 /\ body.success = "true")
                        => (Answered(r) /\ IsGood(response[r]))

\* an update answered with success and an empty result was answered "good"
C11_Witness ==
    \E r \in Req :
        /\ Answered(r)
        /\ Len(answers[r]) = 3
        /\ answers[r][3].success = "true"
        /\ answers[r][3].records = <<>>
        /\ IsGood(response[r])

----------------------------------------------------------------------------
(* C12 *)

\* the Authorization values of the well-formed credentials, with their parts
Credentials ==
    { <<BasicHeader(Credential(user, token)), user, token>> :
        user \in {UserA, UserB}, token \in {TokenT, TokenU} }

\* the user name and the token a request carries
UserOf(req) == (CHOOSE c \in Credentials : c[1] = req.authorization)[2]
TokenOf(req) == (CHOOSE c \in Credentials : c[1] = req.authorization)[3]

\* the Authorization values of two credentials with one token and different users
UsernameVariants ==
    { <<BasicHeader(Credential(u, token)), BasicHeader(Credential(v, token))>> :
        u \in {UserA, UserB}, v \in {UserA, UserB}, token \in {TokenT, TokenU} }
    \ { <<c[1], c[1]>> : c \in Credentials }

\* the requests a and b differ in nothing but the user name of their credentials
DifferOnlyInUsername(a, b) ==
    /\ a.hasAuthorization /\ b.hasAuthorization
    /\ a.authorization # b.authorization
    /\ [a EXCEPT !.authorization = <<>>] = [b EXCEPT !.authorization = <<>>]
    /\ <<a.authorization, b.authorization>> \in UsernameVariants

\* C12 as stated: two update requests that differ only in the user name and
\* received the same provider answers issued the same remote calls and were
\* given the same response.
C12_UsernameUnused ==
    \A a, b \in Req :
        (/\ Answered(a) /\ Answered(b)
         /\ answers[a] = answers[b]
         /\ DifferOnlyInUsername(request[a], request[b]))
            => /\ calls[a] = calls[b]
               /\ response[a] = response[b]

\* C12 amended: the user name is the name parameter of the zone lookup and is
\* quoted in the reason of a failed zone lookup, and is used for nothing else:
\* no other field of any remote call holds it, and two update requests that
\* differ only in the user name and received the same provider answers issued
\* the same calls but for that parameter and were given the same response but
\* for the user name quoted in that reason.
C12_UsernameIsZoneName ==
    /\ \A r \in Req :
        calls[r] # <<>> =>
            /\ calls[r][1] = [op |-> "findZone", method |-> "GET", zone_id |-> "",
                              record_id |-> "", name |-> UserOf(request[r]),
                              bearer |-> TokenOf(request[r]), body |-> NoRecord]
            /\ \A i \in 2..Len(calls[r]) :
                /\ calls[r][i].bearer = TokenOf(request[r])
                /\ calls[r][i].name = IF i = 2 THEN request[r].hostname ELSE <<>>
                /\ calls[r][i].zone_id = answers[r][1].zones[1].id
                /\ calls[r][i].body =
                     IF i = 2 THEN NoRecord
                     ELSE [answers[r][2].records[1] EXCEPT !.content = request[r].ip]
    /\ \A a, b \in Req :
        (/\ Answered(a) /\ Answered(b)
         /\ answers[a] = answers[b]
         /\ DifferOnlyInUsername(request[a], request[b]))
            => /\ Len(calls[a]) = Len(calls[b])
               /\ \A i \in 1..Len(calls[a]) :
                    [calls[a][i] EXCEPT !.name = <<>>] = [calls[b][i] EXCEPT !.name = <<>>]
               /\ \A i \in 2..Len(calls[a]) : calls[a][i] = calls[b][i]
               /\ [response[a] EXCEPT !.body.arg = <<>>] = [response[b] EXCEPT !.body.arg = <<>>]
               /\ response[a].body # response[b].body
                    => /\ response[a].body = Quoted("Failed to find zone '", UserOf(request[a]))
                       /\ response[b].body = Quoted("Failed to find zone '", UserOf(request[b]))

\* two requests that differ only in the user name both had their zone lookup
\* answered with the same error body, and each was told of its own zone name
C12_Witness ==
    \E a, b \in Req :
        /\ Answered(a) /\ Answered(b)
        /\ DifferOnlyInUsername(request[a], request[b])
        /\ answers[a] = answers[b]
        /\ Len(answers[a]) = 1
        /\ answers[a][1].success = "false"
        /\ calls[a][1].name = UserA /\ calls[b][1].name = UserB
        /\ response[a].body = Quoted("Failed to find zone '", UserA)
        /\ response[b].body = Quoted("Failed to find zone '", UserB)

----------------------------------------------------------------------------
(* C13 *)

\* Authorization values that decode to a text without a colon or with a
\* control character, and values that do not decode at all
InvalidAuthorizations ==
    { BasicHeader(UserA), BasicHeader(Credential(UserA, <<DEL>>)),
      BasicHeader(Credential(UserA, TokenU \o <<DEL>>)) }
UndecodableAuthorizations == { BasicScheme, BasicScheme \o <<Space, 33>> }

\* the i-th answer of r makes step i fail
AnswerFails(r, i) ==
    \/ answers[r][i] = NoBody
    \/ answers[r][i].success # "true"
    \/ i < 3 /\ Len(ResultOf(answers[r][i], i)) = 0

\* the checks of the fixed order that r fails, numbered 1 (transport security),
\* 2 (Authorization present), 3 (credential parsing), 4 (hostname), 5 (zone
\* lookup), 6 (record lookup), 7 (update); 2 to 7 apply to update paths only
Violations(r) ==
    LET req == request[r]
        update == req.pathname \in UpdatePaths
    IN  (IF req.protocol # "https:" \/ req.xfp # "https" THEN {1} ELSE {})
        \cup (IF update /\ ~req.hasAuthorization THEN {2} ELSE {})
        \cup (IF update /\ req.hasAuthorization
                    /\ req.authorization \in
                        InvalidAuthorizations \cup UndecodableAuthorizations
               THEN {3} ELSE {})
        \cup (IF update /\ (~req.hasHostname \/ req.hostname = <<>>) THEN {4} ELSE {})
        \cup {4 + i : i \in {j \in 1..Len(answers[r]) : AnswerFails(r, j)}}

Earliest(S) == CHOOSE k \in S : \A j \in S : k <= j

\* status and reason of the failure of check k for r
FailureOf(r, k) ==
    IF k = 1 THEN <<400, Text("Please use a HTTPS connection.")>>
    ELSE IF k = 2 THEN <<400, Text("Please provide valid credentials.")>>
    ELSE IF k = 3
    THEN IF request[r].authorization \in InvalidAuthorizations
         THEN <<400, Text("Invalid authorization value.")>>
         ELSE <<500, Text("InvalidCharacterError: atob() called with invalid base64-encoded data.")>>
    ELSE IF k = 4 THEN <<400, Text("You must specify a hostname")>>
    ELSE IF answers[r][k - 4] = NoBody THEN <<500, Text("TypeError: fetch failed")>>
    ELSE <<500, ProviderReason(r, k - 4)>>

\* the functions entered and the number of remote calls issued when check k fails
ReachedAt(k) ==
    IF k <= 2 THEN <<<<>>, 0>>
    ELSE IF k = 3 THEN <<<<"basicAuthentication">>, 0>>
    ELSE IF k = 4 THEN <<<<"basicAuthentication", "verifyParameters">>, 0>>
    ELSE <<<<"basicAuthentication", "verifyParameters", "informAPI">>, k - 4>>

\* C13: the first failure in the order transport security, Authorization
\* present, credential parsing, hostname validation, zone lookup, record
\* lookup, update is the one reported: the response of a request that fails
\* several checks carries the status and reason of the earliest, and no later
\* step is executed.
C13_FirstFailureReported ==
    \A r \in Req :
        (pc[r] # "idle" /\ Violations(r) # {})
            => LET k == Earliest(Violations(r))
               IN  /\ Answered(r)
                   /\ response[r].status = FailureOf(r, k)[1]
                   /\ response[r].body = FailureOf(r, k)[2]
                   /\ steps[r] = ReachedAt(k)[1]
                   /\ Len(calls[r]) = ReachedAt(k)[2]

\* a secure update request with credentials that lack a colon and with no
\* hostname was answered with the credential failure, before validation
C13_Witness ==
    \E r \in Req :
        /\ Answered(r)
        /\ Violations(r) = {3, 4}
        /\ request[r].authorization = BasicHeader(UserA)
        /\ response[r].status = 400
        /\ response[r].body = Text("Invalid authorization value.")
        /\ steps[r] = <<"basicAuthentication">>

----------------------------------------------------------------------------
(* C14 *)

\* the response of r renders the failure err
Renders(resp, err) ==
    /\ resp # NoResponse
    /\ err.name = "BadRequestException" => resp.status = 400
    /\ err.name = "CloudflareApiException" => resp.status = 500
    /\ err.status = 0 => resp.status = 500
    /\ err.status # 0 => (resp.status = err.status /\ resp.statusText = err.statusText)
    /\ err.reason # EmptyText => resp.body = err.reason
    /\ err.reason = EmptyText => (resp.body # EmptyText /\ resp.body = Text(err.stack))
    /\ resp.contentType = "text/plain;charset=UTF-8"
    /\ resp.cacheControl = "no-store"

\* C14: every failed request ends in exactly one response: its status is the
\* failure's (400 for InvalidRequest, 500 for ProviderError, 500 for a failure
\* without a status), its body the failure's reason (the failure's diagnostic
\* text when it has no reason), its Cache-Control no-store; the response is
\* there as soon as the failure is, and once given it never changes.
C14_FailureRendered ==
    /\ [](\A r \in Req :
            /\ thrown[r] # NoError => (Answered(r) /\ Renders(response[r], thrown[r]))
            /\ Answered(r) => response[r] # NoResponse
            /\ response[r] # NoResponse => Answered(r))
    /\ [][\A r \in Req : response[r] # NoResponse => response'[r] = response[r]]_vars

\* a request failed with an exception that has neither status nor reason and
\* was answered 500 with the exception's text
C14_Witness ==
    \E r \in Req :
        /\ thrown[r].name = "DOMException"
        /\ thrown[r].status = 0
        /\ Answered(r)
        /\ response[r].status = 500
        /\ response[r].body = Text(thrown[r].stack)
        /\ response[r].cacheControl = "no-store"

----------------------------------------------------------------------------
(* C15 *)

\* the i-th remote call of r as its own request and the answers to its own
\* earlier calls make it
OwnCall(r, i) ==
    [op |-> UpdateSequence[i],
     method |-> IF i = 3 THEN "PUT" ELSE "GET",
     zone_id |-> IF i = 1 THEN "" ELSE answers[r][1].zones[1].id,
     record_id |-> IF i = 3 THEN answers[r][2].records[1].id ELSE "",
     name |-> IF i = 1 THEN UserOf(request[r])
              ELSE IF i = 2 THEN request[r].hostname ELSE <<>>,
     bearer |-> TokenOf(request[r]),
     body |-> IF i = 3 THEN [answers[r][2].records[1] EXCEPT !.content = request[r].ip]
              ELSE NoRecord]

\* the requests whose update of the record id the provider accepted
Updaters(id) ==
    {r \in Req : /\ Len(calls[r]) = 3
                 /\ calls[r][3].record_id = id
                 /\ Len(answers[r]) = 3
                 /\ answers[r][3] # NoBody
                 /\ answers[r][3].success = "true"}

NoneInFlight == \A r \in Req : pc[r] \in {"idle", "done"}

\* C15: however the update requests interleave, every remote call of a request
\* is made of that request's own token, zone name, hostname, looked-up record
\* and caller IP; two requests that are equal and got equal answers get equal
\* responses whatever else was in flight; and when no request is in flight a
\* record holds the caller IP of one of the requests whose update of it the
\* provider accepted (and is untouched when there was none).
C15_RequestsIsolated ==
    /\ \A r \in Req : \A i \in 1..Len(calls[r]) : calls[r][i] = OwnCall(r, i)
    /\ \A a, b \in Req :
        (/\ Answered(a) /\ Answered(b)
         /\ request[a] = request[b]
         /\ answers[a] = answers[b])
            => (response[a] = response[b] /\ calls[a] = calls[b])
    /\ NoneInFlight =>
        \A id \in DOMAIN dns :
            IF Updaters(id) = {} THEN dns[id] = InitialDns[id]
            ELSE /\ dns[id].content \in {request[r].ip : r \in Updaters(id)}
                 /\ [dns[id] EXCEPT !.content = OldIp] = InitialDns[id]

\* two requests from different addresses were in flight together, both
\* updates were accepted, the update of the request that arrived first was
\* handled last, and the record holds that request's address
C15_Witness ==
    /\ NoneInFlight
    /\ Updaters("r1") = {1, 2}
    /\ request[1].ip # request[2].ip
    /\ request[1].authorization = request[2].authorization
    /\ 1 \notin doneBefore[2]
    /\ response[1] = GoodResponse /\ response[2] = GoodResponse
    /\ dns["r1"].content = request[1].ip
    /\ applied[2].content = request[2].ip

====
